---- MODULE Spec2Model ----
(***************************************************************************)
(* Model of the supervisorctl client (package supervisorctl).              *)
(*                                                                         *)
(* A Go string is modelled as a sequence of one-character strings, so that *)
(* strings.Fields, strings.Join, strings.Contains, strings.Split,          *)
(* strings.TrimSpace and strconv.Atoi are computed character by character  *)
(* as the library computes them.  Argument vectors are sequences of        *)
(* opaque strings: the client never looks inside an argument.              *)
(***************************************************************************)
EXTENDS Integers, Sequences, FiniteSets, TLC

\* ------------------------------------------------------------------------
\* Bounds of the model
\* ------------------------------------------------------------------------
\* longest Names list handed to Status
MaxNames == 2
\* most lines in the captured output of one status run
MaxLines == 2
\* most fragments concatenated into a free-form description
MaxFrags == 4
\* most digits of a pid printed by the tool
MaxDigits == 2
\* largest exit code of the external tool that is enumerated
MaxExitCode == 5

\* ------------------------------------------------------------------------
\* String literals of the source, as character sequences
\* ------------------------------------------------------------------------
sSpace == <<" ">>
sComma == <<",">>
sPid == <<"p","i","d">>
sUptime == <<"u","p","t","i","m","e">>
sNoSuchProcess == <<"n","o"," ","s","u","c","h"," ","p","r","o","c","e","s","s">>
sSTOPPED == <<"S","T","O","P","P","E","D">>
sSTARTING == <<"S","T","A","R","T","I","N","G">>
sRUNNING == <<"R","U","N","N","I","N","G">>
sBACKOFF == <<"B","A","C","K","O","F","F">>
sSTOPPING == <<"S","T","O","P","P","I","N","G">>
sEXITED == <<"E","X","I","T","E","D">>
sFATAL == <<"F","A","T","A","L">>
sUNKNOWN == <<"U","N","K","N","O","W","N">>

\* ------------------------------------------------------------------------
\* The string library, as the Go standard library computes it
\* ------------------------------------------------------------------------
\* unicode.IsSpace restricted to the characters of the model's alphabet
IsSpace(c) == c \in {" ", "\t", "\r", "\n"}

IsDigit(c) == c \in {"0","1","2","3","4","5","6","7","8","9"}

DigitVal(c) ==
    CASE c = "0" -> 0 [] c = "1" -> 1 [] c = "2" -> 2 [] c = "3" -> 3
      [] c = "4" -> 4 [] c = "5" -> 5 [] c = "6" -> 6 [] c = "7" -> 7
      [] c = "8" -> 8 [] c = "9" -> 9

\* s[from..] (1-based), empty when from is past the end
Drop(s, n) == SubSeq(s, n + 1, Len(s))

Take(s, n) == SubSeq(s, 1, n)

\* strings.Index, 1-based; 0 when sub does not occur (Go: -1)
RECURSIVE IndexFrom(_, _, _)
IndexFrom(s, sub, i) ==
    IF i + Len(sub) - 1 > Len(s) THEN 0
    ELSE IF SubSeq(s, i, i + Len(sub) - 1) = sub THEN i
    ELSE IndexFrom(s, sub, i + 1)

Index(s, sub) == IndexFrom(s, sub, 1)

\* strings.Contains
Contains(s, sub) == Index(s, sub) # 0

\* strings.Split with a non-empty separator: every piece, empty ones included
RECURSIVE Split(_, _)
Split(s, sep) ==
    LET i == Index(s, sep) IN
    IF i = 0 THEN <<s>>
    ELSE <<Take(s, i - 1)>> \o Split(Drop(s, i - 1 + Len(sep)), sep)

\* strings.TrimSpace
RECURSIVE TrimLeft(_)
TrimLeft(s) ==
    IF s # << >> /\ IsSpace(Head(s)) THEN TrimLeft(Tail(s)) ELSE s

RECURSIVE TrimRight(_)
TrimRight(s) ==
    IF s # << >> /\ IsSpace(s[Len(s)]) THEN TrimRight(Take(s, Len(s) - 1)) ELSE s

TrimSpace(s) == TrimRight(TrimLeft(s))

\* strings.Fields: the maximal runs of non-space characters, in order
RECURSIVE FieldsFrom(_, _, _)
FieldsFrom(s, cur, acc) ==
    IF s = << >> THEN (IF cur = << >> THEN acc ELSE Append(acc, cur))
    ELSE IF IsSpace(Head(s))
         THEN FieldsFrom(Tail(s), << >>, IF cur = << >> THEN acc ELSE Append(acc, cur))
         ELSE FieldsFrom(Tail(s), Append(cur, Head(s)), acc)

Fields(s) == FieldsFrom(s, << >>, << >>)

\* strings.Join
RECURSIVE Join(_, _)
Join(parts, sep) ==
    IF parts = << >> THEN << >>
    ELSE IF Len(parts) = 1 THEN parts[1]
    ELSE parts[1] \o sep \o Join(Tail(parts), sep)

\* the value of a digit string, most significant digit first
RECURSIVE DigitsValue(_, _)
DigitsValue(s, acc) ==
    IF s = << >> THEN acc ELSE DigitsValue(Tail(s), acc * 10 + DigitVal(Head(s)))

AllDigits(s) == s # << >> /\ \A i \in 1..Len(s) : IsDigit(s[i])

\* strconv.Atoi: an optional sign and one or more decimal digits; on a
\* syntax error the value is 0 and ok is FALSE
Atoi(s) ==
    LET signed == s # << >> /\ Head(s) \in {"+", "-"}
        digits == IF signed THEN Tail(s) ELSE s
    IN  IF AllDigits(digits)
        THEN [val |-> IF signed /\ Head(s) = "-"
                      THEN 0 - DigitsValue(digits, 0)
                      ELSE DigitsValue(digits, 0),
              ok |-> TRUE]
        ELSE [val |-> 0, ok |-> FALSE]

\* ------------------------------------------------------------------------
\* Values of the program
\* ------------------------------------------------------------------------
\* ProgramInfo{}: the zero value of the record
ZeroInfo ==
    [Name |-> << >>, Description |-> << >>, State |-> 0,
     StateName |-> << >>, PID |-> 0, Uptime |-> << >>]

\* a nil error
Nil == [chain |-> << >>, arg |-> << >>]

\* fmt.Errorf(msg + ": %s", arg)
NewError(msg, arg) == [chain |-> <<msg>>, arg |-> arg]

\* fmt.Errorf(msg + ": %w", cause)
Wrap(msg, cause) == [chain |-> <<msg>> \o cause.chain, arg |-> cause.arg]

\* the stateMap literal of parseStatusLine
stateMap ==
    (sSTOPPED :> 0) @@ (sSTARTING :> 10) @@ (sRUNNING :> 20) @@
    (sBACKOFF :> 30) @@ (sSTOPPING :> 40) @@ (sEXITED :> 100) @@
    (sFATAL :> 200) @@ (sUNKNOWN :> 1000)

\* the record returned for a description holding "no such process"
NoSuchProcessInfo(name) ==
    [Name |-> name, Description |-> sNoSuchProcess, State |-> 1000,
     StateName |-> sUNKNOWN, PID |-> 0, Uptime |-> << >>]

\* mutant: the pid text converted without trimming its white space
ExtractPidNoTrim(description) ==
    LET pidStr == Split(description, sPid)[2]
    IN  Atoi(Split(pidStr, sComma)[1]).val

\* pidStr := strings.Split(description, "pid")[1]
\* pidStr = strings.TrimSpace(strings.Split(pidStr, ",")[0])
\* pid, _ = strconv.Atoi(pidStr)
ExtractPid(description) ==
    LET pidStr == Split(description, sPid)[2]
    IN  Atoi(TrimSpace(Split(pidStr, sComma)[1])).val

\* the uptime branch nested in the pid branch
ExtractUptime(description) ==
    IF Contains(description, sUptime)
    THEN LET uptimeParts == Split(description, sUptime)
         IN  IF Len(uptimeParts) > 1
             THEN TrimSpace(Split(uptimeParts[2], sComma)[1])
             ELSE << >>
    ELSE << >>

\* mutant: a state token missing from the table yields the map's zero value
ParseKnownStateDefault(name, state, description) ==
    LET hasPid == Contains(description, sPid)
    IN  [info |-> [Name |-> name,
                   Description |-> description,
                   State |-> IF state \in DOMAIN stateMap THEN stateMap[state] ELSE 0,
                   StateName |-> state,
                   PID |-> IF hasPid THEN ExtractPid(description) ELSE 0,
                   Uptime |-> IF hasPid THEN ExtractUptime(description) ELSE << >>],
         err |-> Nil]

\* parseStatusLine after the "no such process" short-circuit: the table
\* lookup and the pid and uptime extraction
ParseKnownState(name, state, description) ==
    IF state \notin DOMAIN stateMap
    THEN [info |-> ZeroInfo, err |-> NewError("unknown state", state)]
    ELSE LET hasPid == Contains(description, sPid)
         IN  [info |-> [Name |-> name,
                        Description |-> description,
                        State |-> stateMap[state],
                        StateName |-> state,
                        PID |-> IF hasPid THEN ExtractPid(description) ELSE 0,
                        Uptime |-> IF hasPid THEN ExtractUptime(description)
                                   ELSE << >>],
              err |-> Nil]

\* mutant: the state table consulted before the "no such process" check
parseStatusLineTableFirst(line) ==
    LET parts == Fields(line) IN
    IF Len(parts) < 3
    THEN [info |-> ZeroInfo, err |-> NewError("invalid status line", line)]
    ELSE LET name == parts[1]
             state == parts[2]
             description == Join(SubSeq(parts, 3, Len(parts)), sSpace)
         IN  IF state \notin DOMAIN stateMap
             THEN [info |-> ZeroInfo, err |-> NewError("unknown state", state)]
             ELSE IF Contains(description, sNoSuchProcess)
             THEN [info |-> NoSuchProcessInfo(name), err |-> Nil]
             ELSE ParseKnownState(name, state, description)

\* parseStatusLine: (ProgramInfo, error)
parseStatusLine(line) ==
    LET parts == Fields(line) IN
    IF Len(parts) < 3
    THEN [info |-> ZeroInfo, err |-> NewError("invalid status line", line)]
    ELSE LET name == parts[1]
             state == parts[2]
             description == Join(SubSeq(parts, 3, Len(parts)), sSpace)
         IN  IF Contains(description, sNoSuchProcess)
             THEN [info |-> NoSuchProcessInfo(name), err |-> Nil]
             ELSE ParseKnownState(name, state, description)

\* bufio.ScanLines: a line ends at "\n", one trailing "\r" is dropped, and
\* a final line without a newline is delivered when it is not empty
DropCR(data) ==
    IF data # << >> /\ data[Len(data)] = "\r" THEN Take(data, Len(data) - 1)
    ELSE data

RECURSIVE ScanLines(_)
ScanLines(data) ==
    IF data = << >> THEN << >>
    ELSE LET i == Index(data, <<"\n">>) IN
         IF i = 0 THEN <<DropCR(data)>>
         ELSE <<DropCR(Take(data, i - 1))>> \o ScanLines(Drop(data, i))

\* mutant: each record put in front of the ones parsed before it
RECURSIVE ScanLoopReversed(_, _)
ScanLoopReversed(lines, programs) ==
    IF lines = << >> THEN [programs |-> programs, err |-> Nil]
    ELSE LET r == parseStatusLine(Head(lines)) IN
         IF r.err # Nil
         THEN [programs |-> << >>,
               err |-> Wrap("failed to parse status line", r.err)]
         ELSE ScanLoopReversed(Tail(lines), <<r.info>> \o programs)

\* mutant: the records parsed so far returned along with the error
RECURSIVE ScanLoopPartial(_, _)
ScanLoopPartial(lines, programs) ==
    IF lines = << >> THEN [programs |-> programs, err |-> Nil]
    ELSE LET r == parseStatusLine(Head(lines)) IN
         IF r.err # Nil
         THEN [programs |-> programs,
               err |-> Wrap("failed to parse status line", r.err)]
         ELSE ScanLoopPartial(Tail(lines), Append(programs, r.info))

\* the scanner loop of Status: the first line that fails to parse ends the
\* call with (nil, error)
RECURSIVE ScanLoop(_, _)
ScanLoop(lines, programs) ==
    IF lines = << >> THEN [programs |-> programs, err |-> Nil]
    ELSE LET r == parseStatusLine(Head(lines)) IN
         IF r.err # Nil
         THEN [programs |-> << >>,
               err |-> Wrap("failed to parse status line", r.err)]
         ELSE ScanLoop(Tail(lines), Append(programs, r.info))

\* ------------------------------------------------------------------------
\* Argument vectors and the command executor
\* ------------------------------------------------------------------------
\* mutant: the configuration flag appended after the subcommand
WithConfigAfter(cfg, args) ==
    IF cfg # "" THEN args \o <<"-c", cfg>> ELSE args

\* args = append([]string{"-c", c.configFile}, args...) when configFile != ""
WithConfig(cfg, args) ==
    IF cfg # "" THEN <<"-c", cfg>> \o args ELSE args

\* args := []string{"status"}; the Names are appended when there are any
StatusArgs(ns) ==
    IF Len(ns) > 0 THEN <<"status">> \o ns ELSE <<"status">>

\* args := []string{"start" | "stop" | "restart", programName}
ControlArgs(sub, programName) == <<sub, programName>>

\* c.commandExecutor.Command("supervisorctl", args...)
CommandCall(args) == [call |-> "Command", name |-> "supervisorctl", args |-> args]

\* a method call on the Cmd the executor returned
CmdCall(method) == [call |-> method, name |-> "", args |-> << >>]

\* what running the external tool can end in: success, an *exec.ExitError
\* with its exit code (-1: killed by a signal), or any other error (the tool
\* could not be launched)
ExitCodes == {-1} \cup (1..MaxExitCode)

ExecResults ==
    {[kind |-> "ok", code |-> 0], [kind |-> "other", code |-> 0]}
    \cup {[kind |-> "exit", code |-> c] : c \in ExitCodes}

\* the error value cmd.Run() or cmd.Output() returned
ExecError(res) ==
    [chain |-> <<IF res.kind = "exit" THEN "exit status" ELSE "exec error">>,
     arg |-> << >>]

\* mutant: exit code 4 no longer tolerated
StatusResultOnly3(res, out) ==
    IF res.kind = "exit" /\ ~(res.code = 3)
    THEN [programs |-> << >>,
          err |-> [chain |-> <<"failed to get status">> \o ExecError(res).chain,
                   arg |-> out]]
    ELSE IF res.kind = "other"
    THEN [programs |-> << >>, err |-> Wrap("failed to get status", ExecError(res))]
    ELSE ScanLoop(ScanLines(out), << >>)

\* Status after cmd.Output() returned (out, res): the exit-code filter and
\* then the scanner loop
StatusResult(res, out) ==
    IF res.kind = "exit" /\ ~(res.code = 3 \/ res.code = 4)
    THEN [programs |-> << >>,
          err |-> [chain |-> <<"failed to get status">> \o ExecError(res).chain,
                   arg |-> out]]
    ELSE IF res.kind = "other"
    THEN [programs |-> << >>, err |-> Wrap("failed to get status", ExecError(res))]
    ELSE ScanLoop(ScanLines(out), << >>)

\* mutant: only a failure to launch reported, a non-zero exit ignored
ControlResultLaunchOnly(msg, res) ==
    IF res.kind = "other" THEN Wrap(msg, ExecError(res)) ELSE Nil

\* Start, Stop, Restart after cmd.Run() returned res
ControlResult(msg, res) ==
    IF res.kind # "ok" THEN Wrap(msg, ExecError(res)) ELSE Nil

\* ------------------------------------------------------------------------
\* Inputs
\* ------------------------------------------------------------------------
SeqsUpTo(S, n) == UNION {[1..k -> S] : k \in 0..n}

RECURSIVE Concat(_)
Concat(ss) == IF ss = << >> THEN << >> ELSE Head(ss) \o Concat(Tail(ss))

\* NewClient(configFile)
ConfigFiles == {"", "/path/to/config"}

ProgramNames == {"program1", "program2"}

NamesLists == SeqsUpTo(ProgramNames, MaxNames)

\* status lines the tool prints, and lines that do not parse
lineRunning ==
    <<"a"," ","R","U","N","N","I","N","G"," ","p","i","d"," ","7",","," ",
      "u","p","t","i","m","e"," ","0",":","0","1">>
lineStopped ==
    <<"b"," ","S","T","O","P","P","E","D"," ","n","o","t"," ","s","t","a","r","t","e","d">>
lineNoSuch ==
    <<"c"," ","E","R","R","O","R"," ","(","n","o"," ","s","u","c","h"," ",
      "p","r","o","c","e","s","s",")">>
lineInvalid == <<"i","n","v","a","l","i","d">>
lineWeird == <<"d"," ","W","E","I","R","D"," ","b","l","a","h">>

OutputLines ==
    {lineRunning, lineStopped, lineNoSuch, lineInvalid, lineWeird, << >>}

\* the captured output: lines joined by "\n", with or without a final "\n"
Outputs ==
    {Join(ls, <<"\n">>) \o nl :
        ls \in SeqsUpTo(OutputLines, MaxLines), nl \in {<< >>, <<"\n">>}}

\* lines handed to parseStatusLine: a head (name and state column, or
\* nothing) followed by a description put together from fragments
LineHeads ==
    { <<"x"," ","R","U","N","N","I","N","G"," ">>,
      <<"x"," ","W","E","I","R","D"," ">>,
      <<"x","\t","S","T","O","P","P","E","D"," "," ">>,
      << >> }

Fragments ==
    { sPid, sUptime, sNoSuchProcess, sSpace, sComma, <<"7">>, <<"a">> }

FragmentLines ==
    {h \o Concat(fs) : h \in LineHeads, fs \in SeqsUpTo(Fragments, MaxFrags)}

\* the format of a running program: "<name> RUNNING pid <N>, uptime <T>"
PidTexts == UNION {[1..k -> {"0", "7"}] : k \in 1..MaxDigits}

Uptimes ==
    { <<"0",":","0","1">>,
      <<"1"," ","d","a","y",","," ","0",":","0","1">>,
      <<"1","2"," ","d","a","y","s",","," ","3",":","0","4">> }

RunningLine(n, t) ==
    <<"x"," ">> \o sRUNNING \o <<" ">> \o sPid \o <<" ">> \o n
        \o <<","," ">> \o sUptime \o <<" ">> \o t

RunningLines == {RunningLine(n, t) : n \in PidTexts, t \in Uptimes}

\* every state token of the table, and two outside it, before the
\* descriptions the tool prints
StateTokens ==
    DOMAIN stateMap \cup {<<"E","R","R","O","R">>, <<"r","u","n","n","i","n","g">>}

Descriptions ==
    { <<"n","o","t"," ","s","t","a","r","t","e","d">>,
      <<"p","i","d"," ","7",","," ","u","p","t","i","m","e"," ","0",":","0","1">>,
      <<"(","n","o"," ","s","u","c","h"," ","p","r","o","c","e","s","s",")">> }

StateLines ==
    {<<"x"," ">> \o st \o <<" ">> \o d : st \in StateTokens, d \in Descriptions}

ParseInputs == FragmentLines \cup RunningLines \cup StateLines

\* ------------------------------------------------------------------------
\* State
\* ------------------------------------------------------------------------
VARIABLES
    pc,          \* "idle": no call in progress; "returned": a call returned
    configFile,  \* Client.configFile
    op,          \* the operation called last
    names,       \* StatusOptions.Names of a Status call
    programName, \* the argument of Start, Stop, Restart
    line,        \* the argument of parseStatusLine
    cmds,        \* the calls made on the command executor and its Cmd
    execResult,  \* how the run of the external tool ended
    output,      \* the bytes cmd.Output() returned
    programs,    \* the []ProgramInfo Status returned (nil: empty)
    info,        \* the ProgramInfo parseStatusLine returned
    err,         \* the error returned
    children     \* subprocesses launched by an async call and still running

vars ==
    <<pc, configFile, op, names, programName, line, cmds, execResult,
      output, programs, info, err, children>>

NoResult == [kind |-> "none", code |-> 0]

Init ==
    /\ pc = "idle"
    /\ configFile \in ConfigFiles
    /\ op = "none"
    /\ names = << >>
    /\ programName = ""
    /\ line = << >>
    /\ cmds = << >>
    /\ execResult = NoResult
    /\ output = << >>
    /\ programs = << >>
    /\ info = ZeroInfo
    /\ err = Nil
    /\ children = 0

\* func (c *Client) Status(opts StatusOptions) ([]ProgramInfo, error)
Status ==
    /\ pc = "idle"
    /\ \E ns \in NamesLists, res \in ExecResults, out \in Outputs :
         LET r == StatusResult(res, out) IN
         /\ op' = "Status"
         /\ names' = ns
         /\ cmds' = <<CommandCall(WithConfig(configFile, StatusArgs(ns))),
                      CmdCall("Output")>>
         /\ execResult' = res
         /\ output' = out
         /\ programs' = r.programs
         /\ err' = r.err
    /\ pc' = "returned"
    /\ UNCHANGED <<configFile, programName, line, info, children>>

\* func (c *Client) Start(programName string) error
Start ==
    /\ pc = "idle"
    /\ \E p \in ProgramNames, res \in ExecResults :
         /\ op' = "Start"
         /\ programName' = p
         /\ cmds' = <<CommandCall(WithConfig(configFile, ControlArgs("start", p))),
                      CmdCall("Run")>>
         /\ execResult' = res
         /\ err' = ControlResult("failed to start program", res)
    /\ pc' = "returned"
    /\ UNCHANGED <<configFile, names, line, output, programs, info, children>>

\* func (c *Client) Stop(programName string) error
Stop ==
    /\ pc = "idle"
    /\ \E p \in ProgramNames, res \in ExecResults :
         /\ op' = "Stop"
         /\ programName' = p
         /\ cmds' = <<CommandCall(WithConfig(configFile, ControlArgs("stop", p))),
                      CmdCall("Run")>>
         /\ execResult' = res
         /\ err' = ControlResult("failed to stop program", res)
    /\ pc' = "returned"
    /\ UNCHANGED <<configFile, names, line, output, programs, info, children>>

\* func (c *Client) Restart(programName string) error
Restart ==
    /\ pc = "idle"
    /\ \E p \in ProgramNames, res \in ExecResults :
         /\ op' = "Restart"
         /\ programName' = p
         /\ cmds' = <<CommandCall(WithConfig(configFile, ControlArgs("restart", p))),
                      CmdCall("Run")>>
         /\ execResult' = res
         /\ err' = ControlResult("failed to restart program", res)
    /\ pc' = "returned"
    /\ UNCHANGED <<configFile, names, line, output, programs, info, children>>

\* a direct call of parseStatusLine(line)
ParseLine ==
    /\ pc = "idle"
    /\ \E l \in ParseInputs :
         LET r == parseStatusLine(l) IN
         /\ op' = "parseStatusLine"
         /\ line' = l
         /\ info' = r.info
         /\ err' = r.err
    /\ pc' = "returned"
    /\ UNCHANGED <<configFile, names, programName, cmds, execResult, output,
                   programs, children>>

\* the caller is done with what the call returned and makes its next call
Discard ==
    /\ pc = "returned"
    /\ pc' = "idle"
    /\ op' = "none"
    /\ names' = << >>
    /\ programName' = ""
    /\ line' = << >>
    /\ cmds' = << >>
    /\ execResult' = NoResult
    /\ output' = << >>
    /\ programs' = << >>
    /\ info' = ZeroInfo
    /\ err' = Nil
    /\ UNCHANGED <<configFile, children>>

\* ------------------------------------------------------------------------
\* The asynchronous variants (README: StartAsync, RestartAsync)
\* ------------------------------------------------------------------------
\* most subprocesses launched by async calls that are running at once
MaxChildren == 2

\* launching the subprocess either succeeds or fails; its exit is not awaited
LaunchResults == {[kind |-> "ok", code |-> 0], [kind |-> "other", code |-> 0]}

\* mutant: a failure to launch reported to the caller
AsyncResultReporting(msg, res) ==
    IF res.kind # "ok" THEN Wrap(msg, ExecError(res)) ELSE Nil

\* what an async call returns: nothing is reported, a launch failure included
AsyncResult(msg, res) == Nil

\* the subprocesses running once the async call has returned
AsyncChildren(n, res) == IF res.kind = "ok" THEN n + 1 ELSE n

\* StartAsync(programName): launch "start <name>" and return
StartAsync ==
    /\ pc = "idle"
    /\ children < MaxChildren
    /\ \E p \in ProgramNames, res \in LaunchResults :
         /\ op' = "StartAsync"
         /\ programName' = p
         /\ cmds' = <<CommandCall(WithConfig(configFile, ControlArgs("start", p))),
                      CmdCall("Start")>>
         /\ execResult' = res
         /\ err' = AsyncResult("failed to start program", res)
         /\ children' = AsyncChildren(children, res)
    /\ pc' = "returned"
    /\ UNCHANGED <<configFile, names, line, output, programs, info>>

\* RestartAsync(programName): launch "restart <name>" and return
RestartAsync ==
    /\ pc = "idle"
    /\ children < MaxChildren
    /\ \E p \in ProgramNames, res \in LaunchResults :
         /\ op' = "RestartAsync"
         /\ programName' = p
         /\ cmds' = <<CommandCall(WithConfig(configFile, ControlArgs("restart", p))),
                      CmdCall("Start")>>
         /\ execResult' = res
         /\ err' = AsyncResult("failed to restart program", res)
         /\ children' = AsyncChildren(children, res)
    /\ pc' = "returned"
    /\ UNCHANGED <<configFile, names, line, output, programs, info>>

\* a subprocess launched by an async call exits; the client observes nothing
ChildExit ==
    /\ children > 0
    /\ children' = children - 1
    /\ UNCHANGED <<pc, configFile, op, names, programName, line, cmds,
                   execResult, output, programs, info, err>>

Next == Status \/ Start \/ Stop \/ Restart \/ ParseLine \/ Discard

Spec == Init /\ [][Next]_vars

NextAsync == StartAsync \/ RestartAsync \/ Start \/ Restart \/ ChildExit \/ Discard

SpecAsync == Init /\ [][NextAsync]_vars

\* ------------------------------------------------------------------------
\* Properties
\* ------------------------------------------------------------------------
Returned(o) == pc = "returned" /\ op = o

\* the lines of the captured output, and whether each of them parses
OutputLinesOf(out) == ScanLines(out)

AllParse(ls) == \A i \in 1..Len(ls) : parseStatusLine(ls[i]).err = Nil

Tolerated(res) == res.kind = "ok" \/ (res.kind = "exit" /\ res.code \in {3, 4})

\* the description of a line: its tokens from the third on, joined by " "
DescriptionOf(l) ==
    LET parts == Fields(l) IN Join(SubSeq(parts, 3, Len(parts)), sSpace)

\* the (State, StateName) rows of the documented table
StateRows ==
    { <<0, sSTOPPED>>, <<10, sSTARTING>>, <<20, sRUNNING>>, <<30, sBACKOFF>>,
      <<40, sSTOPPING>>, <<100, sEXITED>>, <<200, sFATAL>>, <<1000, sUNKNOWN>> }

StateNames == {row[2] : row \in StateRows}

C2_ArgumentVector ==
    (pc = "returned" /\ op \in {"Status", "Start", "Stop", "Restart"}) =>
        LET P == IF configFile = "" THEN << >> ELSE <<"-c", configFile>>
            sub == CASE op = "Status" -> "status" [] op = "Start" -> "start"
                     [] op = "Stop" -> "stop" [] op = "Restart" -> "restart"
            ns == IF op = "Status" THEN names ELSE <<programName>>
        IN  /\ cmds[1].call = "Command"
            /\ cmds[1].name = "supervisorctl"
            /\ cmds[1].args = P \o <<sub>> \o ns

C2_Witness ==
    /\ Returned("Status")
    /\ configFile # ""
    /\ names = <<"program2", "program1">>
    /\ cmds[1].args = <<"-c", configFile, "status", "program2", "program1">>

\* C3: a successful parse, and every record Status returns, pairs State and
\* StateName as one row of the table; a line of 3 or more tokens without
\* "no such process" whose state token is not in the table fails with an
\* unknown-state error and yields no record.
C3_StatePairs ==
    /\ (Returned("parseStatusLine") /\ err = Nil)
           => <<info.State, info.StateName>> \in StateRows
    /\ Returned("Status")
           => \A i \in 1..Len(programs) :
                  <<programs[i].State, programs[i].StateName>> \in StateRows
    /\ (/\ Returned("parseStatusLine")
        /\ Len(Fields(line)) >= 3
        /\ ~Contains(DescriptionOf(line), sNoSuchProcess)
        /\ Fields(line)[2] \notin StateNames)
           => (/\ err = [chain |-> <<"unknown state">>, arg |-> Fields(line)[2]]
               /\ info = ZeroInfo)

C3_Witness ==
    /\ Returned("parseStatusLine")
    /\ Len(Fields(line)) >= 3
    /\ Fields(line)[2] = <<"W","E","I","R","D">>
    /\ err.chain = <<"unknown state">>

\* C4: a line of 3 or more tokens whose description contains "no such
\* process" parses to State 1000, StateName "UNKNOWN", Description
\* "no such process", PID 0 and Uptime "", whatever its second token is.
C4_NoSuchProcess ==
    (/\ Returned("parseStatusLine")
     /\ Len(Fields(line)) >= 3
     /\ Contains(DescriptionOf(line), sNoSuchProcess))
        => (/\ err = Nil
            /\ info.Name = Fields(line)[1]
            /\ info.State = 1000
            /\ info.StateName = sUNKNOWN
            /\ info.Description = sNoSuchProcess
            /\ info.PID = 0
            /\ info.Uptime = << >>)

C4_Witness ==
    /\ Returned("parseStatusLine")
    /\ Len(Fields(line)) >= 3
    /\ Fields(line)[2] = <<"W","E","I","R","D">>
    /\ Contains(DescriptionOf(line), sPid)
    /\ Contains(DescriptionOf(line), sNoSuchProcess)
    /\ info.State = 1000

\* C5 as stated: "<name> RUNNING pid <N>, uptime <T>" parses to State 20,
\* PID N and Uptime T, for every uptime text T the tool prints.
C5_AsStated ==
    Returned("parseStatusLine") =>
        \A n \in PidTexts, t \in Uptimes :
            line = RunningLine(n, t)
                => (/\ err = Nil
                    /\ info.State = 20
                    /\ info.PID = DigitsValue(n, 0)
                    /\ info.Uptime = t)

\* C6: Start, Stop and Restart build one command, run it once, and return
\* an error exactly when that run failed.
C6_ControlOnce ==
    (pc = "returned" /\ op \in {"Start", "Stop", "Restart"}) =>
        /\ Cardinality({i \in 1..Len(cmds) : cmds[i].call = "Command"}) = 1
        /\ Cardinality({i \in 1..Len(cmds) : cmds[i].call = "Run"}) = 1
        /\ Len(cmds) = 2
        /\ (err # Nil) <=> (execResult.kind # "ok")

C6_Witness ==
    /\ Returned("Stop")
    /\ execResult = [kind |-> "exit", code |-> 1]
    /\ err # Nil

\* C7: an async start or restart builds the argument vector of Start or
\* Restart, launches the subprocess without running it to completion (a
\* launched subprocess is still running when the call returns), and returns
\* no error, also when the launch failed.
C7_AsyncFireAndForget ==
    [][(pc = "idle" /\ pc' = "returned" /\ op' \in {"StartAsync", "RestartAsync"}) =>
          /\ err' = Nil
          /\ cmds' = <<CommandCall(WithConfig(configFile,
                           ControlArgs(IF op' = "StartAsync" THEN "start"
                                       ELSE "restart", programName'))),
                       CmdCall("Start")>>
          /\ children' = children + (IF execResult'.kind = "ok" THEN 1 ELSE 0)]_vars

C7_Witness ==
    /\ Returned("StartAsync")
    /\ execResult.kind = "other"
    /\ err = Nil
    /\ children >= 1

AfterFirstPid(d) == Drop(d, Index(d, sPid) - 1 + Len(sPid))

\* s up to its first occurrence of sep, all of s when there is none
UpTo(s, sep) == IF Contains(s, sep) THEN Take(s, Index(s, sep) - 1) ELSE s

\* C9 as stated: PID is the integer value of the trimmed text from just
\* after the first "pid" up to the next comma, 0 when it is no integer.
C9_AsStated ==
    (/\ Returned("parseStatusLine")
     /\ err = Nil
     /\ Fields(line)[2] \in StateNames
     /\ Contains(DescriptionOf(line), sPid))
        => info.PID
             = Atoi(TrimSpace(UpTo(AfterFirstPid(DescriptionOf(line)), sComma))).val

\* C9 amended: for a description without "no such process", the text ends
\* at the next comma or the next "pid", whichever comes first.
C9_PidText ==
    (/\ Returned("parseStatusLine")
     /\ err = Nil
     /\ Fields(line)[2] \in StateNames
     /\ ~Contains(DescriptionOf(line), sNoSuchProcess)
     /\ Contains(DescriptionOf(line), sPid))
        => info.PID
             = Atoi(TrimSpace(UpTo(UpTo(AfterFirstPid(DescriptionOf(line)), sPid),
                                   sComma))).val

C9_Witness ==
    /\ Returned("parseStatusLine")
    /\ err = Nil
    /\ Len(Split(DescriptionOf(line), sPid)) > 2
    /\ info.PID = 7

====
